---- MODULE Spec2Model ----
(***************************************************************************)
(* Model of the CAN sniffer's capture and bit-timing subsystem             *)
(* (My_Modules/Drivers/can/my_can.c): the configuration state, the start   *)
(* and stop operations, the receive interrupt callback that moves frames   *)
(* from the controller's Rx FIFO 0 into the software ring buffer, and the  *)
(* foreground reporter that pops frames and prints them over the UART.     *)
(*                                                                         *)
(* Two execution contexts are modelled: the foreground, which runs one     *)
(* public function of my_can.h at a time, step by step, and the receive    *)
(* interrupt, which preempts the foreground between any two of its steps   *)
(* and runs to completion.  The foreground follows the program's two       *)
(* modes (settings_menu.c): in STATE_MENU it is inside settings_menu(),    *)
(* which stops capture on entry and then configures and starts it; in      *)
(* STATE_RUN the main loop reports frames until the user button asks for   *)
(* the menu again.  Inside the menu the model also lets the caller stop    *)
(* and report, which my_can.h allows at any time.  The FDCAN peripheral    *)
(* and its HAL are the environment: a controller that is initialised,      *)
(* started and stopped, an Rx FIFO that the bus fills while the controller *)
(* runs at the bus's bit-rate, and the interrupt flags and enables.        *)
(***************************************************************************)
EXTENDS Integers, Sequences, FiniteSets, TLC

(***************************************************************************)
(* Bounds of the model.  The ring buffer holds 2^BufBits slots (256 in the *)
(* source, a power of two as the header requires); the interrupt callback  *)
(* reads at most IsrReadMax frames per invocation (32 in the source).      *)
(***************************************************************************)
BufBits == 2

IsrReadMax == 2

HwFifoDepth == 3

MaxArrivals == 5

(***************************************************************************)
(* Integer helpers: C's bitwise and on unsigned values, powers of two.     *)
(***************************************************************************)
RECURSIVE Pow2(_)
Pow2(n) == IF n = 0 THEN 1 ELSE 2 * Pow2(n - 1)

RECURSIVE BitAnd(_, _)
BitAnd(a, b) ==
    IF a = 0 \/ b = 0 THEN 0
    ELSE ((a % 2) * (b % 2)) + 2 * BitAnd(a \div 2, b \div 2)

SOFTWARE_CAN_BUFFER_SIZE == Pow2(BufBits)

(***************************************************************************)
(* The bit-timing table (baudrate, prescaler, timeSeg1, timeSeg2).         *)
(***************************************************************************)
BitTiming(b, p, s1, s2) ==
    [baudrate |-> b, prescaler |-> p, timeSeg1 |-> s1, timeSeg2 |-> s2]

can_timings ==
    << BitTiming(5000, 200, 34, 5),
       BitTiming(10000, 100, 34, 5),
       BitTiming(20000, 50, 34, 5),
       BitTiming(50000, 20, 34, 5),
       BitTiming(100000, 10, 34, 5),
       BitTiming(125000, 8, 34, 5),
       BitTiming(200000, 5, 34, 5),
       BitTiming(250000, 4, 34, 5),
       BitTiming(400000, 4, 19, 5),
       BitTiming(500000, 2, 34, 5),
       BitTiming(800000, 2, 19, 5),
       BitTiming(1000000, 1, 34, 5) >>

baudrates_nbr == Len(can_timings)

TableRates == { can_timings[i].baudrate : i \in 1..baudrates_nbr }

\* The timing registers of hfdcan1.Init that the configuration stages.
NominalTiming(e) ==
    [NominalPrescaler |-> e.prescaler,
     NominalTimeSeg1 |-> e.timeSeg1,
     NominalTimeSeg2 |-> e.timeSeg2]

\* hfdcan1.Init before any configuration: no table entry is staged.
NoTiming == [NominalPrescaler |-> 0, NominalTimeSeg1 |-> 0, NominalTimeSeg2 |-> 0]

\* The bit-rate at which a controller programmed with timing t listens
\* (0 when t is no table entry): each table entry has its own parameters.
RateOfTiming(t) ==
    IF \E i \in 1..baudrates_nbr : NominalTiming(can_timings[i]) = t
    THEN (CHOOSE e \in { can_timings[i] : i \in 1..baudrates_nbr } :
              NominalTiming(e) = t).baudrate
    ELSE 0

(***************************************************************************)
(* my_CAN_Status and my_CAN_Frame.                                         *)
(***************************************************************************)
Status(s, b, f, m) == [is_set |-> s, baudrate |-> b, filter_id |-> f, mask_id |-> m]

Frame(id, dlc, data) == [Identifier |-> id, DataLength |-> dlc, Data |-> data]

ZeroData == << 0, 0, 0, 0, 0, 0, 0, 0 >>

ZeroFrame == Frame(0, 0, ZeroData)

(***************************************************************************)
(* Inputs.  In the full specification the user asks for one table rate or  *)
(* one value outside the table and for one filter/mask pair outside the    *)
(* 11-bit range; the configuration-only specification asks for every table *)
(* rate, several values outside the table and filters and masks inside and *)
(* outside the 11-bit range.  The bus carries a fixed stream of distinct   *)
(* standard frames at one bit-rate (0: a silent bus).                      *)
(***************************************************************************)
BaudrateInputs == { 500000, 123456 }

FilterInputs == { 8191 }

MaskInputs == { 2048 }

\* The wider requests of the configuration-only specification.
AllBaudrateInputs == TableRates \cup { 0, 1, 4999, 123456 }

AllFilterInputs == { 291, 2048, 8191, 2147483647 }

BusRates == { 0, 500000 }

\* The n-th frame on the bus: identifiers 0x123, 0x7FF, 0x00A, 0x045, ...,
\* data lengths 3, 8, 0, 1, 5, ..., payload AA BB CC ... shifted per frame.
Identifiers == << 291, 2047, 10, 69, 256, 1 >>

DataLengths == << 3, 8, 0, 1, 5 >>

Cyclic(q, n) == q[((n - 1) % Len(q)) + 1]

BusByte(n, k) == (170 + 17 * (k - 1) + 5 * (n - 1)) % 256

BusFrame(n) ==
    [Identifier |-> Cyclic(Identifiers, n),
     DataLength |-> Cyclic(DataLengths, n),
     Data |-> [k \in 1..8 |-> IF k <= Cyclic(DataLengths, n) THEN BusByte(n, k) ELSE 0]]

VARIABLES
    can_status,                     \* my_CAN_Status can_status
    hfdcan1_Init,                   \* hfdcan1.Init nominal timing
    sFilterConfig,                  \* FDCAN_FilterTypeDef sFilterConfig
    head,                           \* ring buffer write index
    tail,                           \* ring buffer read index
    CAN_ring_buffer,                \* slots 0..SOFTWARE_CAN_BUFFER_SIZE-1
    software_CAN_buffer_overflow,
    hardware_CAN_buffer_overflow,
    fdcan,                          \* the FDCAN1 peripheral
    bus_rate,                       \* bit-rate of the traffic on the bus
    arrivals,                       \* frames the bus has carried so far
    system_state,                   \* volatile SystemState system_state
    pc,                             \* foreground: "main", "menu" or a function's step
    auto_i,                         \* foreground: loop index i of auto configuration
    frame,                          \* foreground: local frame of send_frame_over_UART
    isr_pc,                         \* interrupt: "idle" or "loop"
    isr_i,                          \* interrupt: loop index i of the callback
    call,                           \* the running/last function: state at its call, result
    hal_calls,                      \* HAL calls of the running/last function
    tried,                          \* table indices auto configuration applied
    fills,                          \* fill levels check_Fifo read, per attempt
    uart,                           \* what the running/last report cycle printed
    enq_log,                        \* frames stored since the last buffer reset
    pop_log,                        \* frames popped since the last buffer reset
    burst,                          \* enqueue attempts since the last pop or reset
    burst_start                     \* how the burst began: by, occupancy then

cfg_vars == << can_status, hfdcan1_Init, sFilterConfig >>

buf_vars == << head, tail, CAN_ring_buffer, enq_log, pop_log, burst, burst_start >>

flag_vars == << software_CAN_buffer_overflow, hardware_CAN_buffer_overflow >>

env_vars == << bus_rate, arrivals >>

isr_vars == << isr_pc, isr_i >>

probe_vars == << auto_i, tried, fills >>

vars == << can_status, hfdcan1_Init, sFilterConfig, head, tail, CAN_ring_buffer,
           software_CAN_buffer_overflow, hardware_CAN_buffer_overflow, fdcan,
           bus_rate, arrivals, system_state, pc, auto_i, frame, isr_pc, isr_i, call, hal_calls,
           tried, fills, uart, enq_log, pop_log, burst, burst_start >>

(***************************************************************************)
(* The FDCAN1 peripheral as the HAL drives it.  Init and Stop put the      *)
(* controller in initialisation mode, which halts reception and resets the *)
(* Rx FIFO status; Init also programs the bit timing and flushes the       *)
(* message RAM (the filter elements).  Neither touches the interrupt       *)
(* enables or flags.                                                       *)
(***************************************************************************)
HAL_FDCAN_Init(p, init) ==
    [p EXCEPT !.running = FALSE, !.timing = init, !.fifo = << >>,
              !.filter = << >>]

HAL_FDCAN_ConfigGlobalFilter(p, nonMatchingStd) ==
    [p EXCEPT !.nonMatchingStd = nonMatchingStd]

HAL_FDCAN_ConfigFilter(p, f) ==
    [p EXCEPT !.filter = << f.FilterID1, f.FilterID2 >>]

HAL_FDCAN_Start(p) == [p EXCEPT !.running = TRUE]

HAL_FDCAN_Stop(p) == [p EXCEPT !.running = FALSE, !.fifo = << >>]

HAL_FDCAN_ActivateNotification(p) == [p EXCEPT !.ie_new = TRUE]

HAL_FDCAN_DeactivateNotification(p) == [p EXCEPT !.ie_new = FALSE]

HAL_FDCAN_GetRxFifoFillLevel(p) == Len(p.fifo)

\* Acceptance filtering of a standard identifier: the classic mask filter
\* element when one is programmed, else the global non-matching rule.
Accepts(p, id) ==
    \/ /\ p.filter # << >>
       /\ BitAnd(id, p.filter[2]) = BitAnd(p.filter[1], p.filter[2])
    \/ p.nonMatchingStd = "accept"

\* One entry of hal_calls.
HalCall(name, a, b) == [fn |-> name, a |-> a, b |-> b]

(***************************************************************************)
(* The ring buffer as a queue: occupancy and the unread frames in order.   *)
(***************************************************************************)
Occupancy(h, t) == (h - t + SOFTWARE_CAN_BUFFER_SIZE) % SOFTWARE_CAN_BUFFER_SIZE

Unread(buf, h, t) ==
    [k \in 1..Occupancy(h, t) |-> buf[(t + k - 1) % SOFTWARE_CAN_BUFFER_SIZE]]

\* What a function call remembers of the state it is called in or returns in.
Snap(st, h, t, buf, p, hwf, swf) ==
    [status |-> st, head |-> h, tail |-> t, unread |-> Unread(buf, h, t),
     running |-> p.running, ie_new |-> p.ie_new, hw_ovf |-> hwf, sw_ovf |-> swf]

Snapshot ==
    Snap(can_status, head, tail, CAN_ring_buffer, fdcan,
         hardware_CAN_buffer_overflow, software_CAN_buffer_overflow)

\* again: the previous call was of the same function, which then had
\* prev_unread frames pending.
Called(op, arg) ==
    [op |-> op, arg |-> arg, from |-> pc, done |-> FALSE, before |-> Snapshot,
     after |-> Snapshot, val |-> FALSE, intr |-> FALSE, again |-> (call.op = op),
     prev_unread |-> IF call.op = op THEN Len(call.before.unread) ELSE 0]

\* A call starts with empty records of what the function does.
FreshRecords ==
    /\ hal_calls' = << >>
    /\ tried' = << >>
    /\ fills' = << >>
    /\ uart' = << >>

\* The function returns val from the state the step leaves (the primed one).
Returned(c, val, snap) == [c EXCEPT !.done = TRUE, !.val = val, !.after = snap]

Init ==
    /\ can_status = Status(FALSE, 0, 0, 0)
    /\ hfdcan1_Init = NoTiming
    /\ sFilterConfig = [FilterID1 |-> 0, FilterID2 |-> 0]
    /\ head = 0
    /\ tail = 0
    /\ CAN_ring_buffer = [k \in 0..(SOFTWARE_CAN_BUFFER_SIZE - 1) |-> ZeroFrame]
    /\ software_CAN_buffer_overflow = FALSE
    /\ hardware_CAN_buffer_overflow = FALSE
    /\ fdcan = [running |-> FALSE, timing |-> NoTiming, nonMatchingStd |-> "reject",
                filter |-> << >>, ie_new |-> FALSE, ie_lost |-> FALSE,
                ir_new |-> FALSE, ir_lost |-> FALSE, fifo |-> << >>]
    /\ bus_rate \in BusRates
    /\ arrivals = 0
    /\ system_state = "STATE_MENU"
    /\ pc = "main"
    /\ auto_i = 0
    /\ frame = ZeroFrame
    /\ isr_pc = "idle"
    /\ isr_i = 0
    /\ call = [op |-> "none", from |-> "main", done |-> TRUE]
    /\ hal_calls = << >>
    /\ tried = << >>
    /\ fills = << >>
    /\ uart = << >>
    /\ enq_log = << >>
    /\ pop_log = << >>
    /\ burst = << >>
    /\ burst_start = [by |-> "reset", occ |-> 0, was_full |-> FALSE,
                       after_drop |-> FALSE, ovf |-> FALSE]

\* The foreground runs only while no interrupt handler is active.
Foreground(at) == pc = at /\ isr_pc = "idle"

\* Where the functions of my_can.h are called from: the menu loop of
\* settings_menu(), and the main loop in the given mode.
InMenu == Foreground("menu")

InMain(mode) == Foreground("main") /\ system_state = mode

(***************************************************************************)
(* my_CAN_manual_configuration(baudrate)                                   *)
(***************************************************************************)
\* Variant: the search stops one entry short of the table.
FindTimingShort(baudrate) ==
    IF \E i \in 1..(baudrates_nbr - 1) : can_timings[i].baudrate = baudrate
    THEN CHOOSE i \in 1..(baudrates_nbr - 1) : can_timings[i].baudrate = baudrate
    ELSE 0

\* Index (1-based) of the first table entry with this baudrate, 0 if none.
FindTiming(baudrate) ==
    IF \E i \in 1..baudrates_nbr : can_timings[i].baudrate = baudrate
    THEN CHOOSE i \in 1..baudrates_nbr :
             /\ can_timings[i].baudrate = baudrate
             /\ \A j \in 1..(i - 1) : can_timings[j].baudrate # baudrate
    ELSE 0

ManualStatus(baudrate, st) ==
    IF FindTiming(baudrate) # 0
    THEN Status(TRUE, baudrate, st.filter_id, st.mask_id)
    ELSE Status(FALSE, 0, st.filter_id, st.mask_id)

\* Variant: the timing of the entry found is not staged.
ManualTimingKept(baudrate, init) == init

\* hfdcan1.Init.NominalPrescaler/TimeSeg1/TimeSeg2 = can_timings[i]...
ManualTiming(baudrate, init) ==
    IF FindTiming(baudrate) # 0
    THEN NominalTiming(can_timings[FindTiming(baudrate)])
    ELSE init

my_CAN_manual_configuration(baudrates) ==
    /\ InMenu
    /\ \E baudrate \in baudrates :
          /\ hfdcan1_Init' = ManualTiming(baudrate, hfdcan1_Init)
          /\ can_status' = ManualStatus(baudrate, can_status)
          /\ call' = Returned(Called("manual", baudrate), can_status',
                              [Snapshot EXCEPT !.status = can_status'])
    /\ FreshRecords
    /\ UNCHANGED << sFilterConfig, buf_vars, flag_vars, fdcan, env_vars, system_state,
                    pc, frame, isr_vars, auto_i >>

(***************************************************************************)
(* my_CAN_set_filter_mask(filter_id, mask_id)                              *)
(***************************************************************************)
\* Variant: a twelve-bit mask.
MaskStdIdWide(x) == BitAnd(x, 4095)

\* filter_id &= 0x7FF
MaskStdId(x) == BitAnd(x, 2047)

\* Variant: the status is rebuilt as not configured.
FilterStatusUnset(filter_id, mask_id, st) == Status(FALSE, 0, filter_id, mask_id)

\* return can_status = (my_CAN_Status){can_status.is_set, can_status.baudrate, ...}
FilterStatus(filter_id, mask_id, st) == Status(st.is_set, st.baudrate, filter_id, mask_id)

\* Called from the menu; my_can.h also allows the call while capture runs.
my_CAN_set_filter_mask(filters, masks) ==
    /\ InMenu \/ InMain("STATE_RUN")
    /\ \E filter_id \in filters, mask_id \in masks :
          /\ sFilterConfig' = [FilterID1 |-> MaskStdId(filter_id),
                               FilterID2 |-> MaskStdId(mask_id)]
          /\ can_status' = FilterStatus(MaskStdId(filter_id), MaskStdId(mask_id),
                                        can_status)
          /\ call' = Returned(Called("set_filter", << filter_id, mask_id >>),
                              can_status', [Snapshot EXCEPT !.status = can_status'])
    /\ FreshRecords
    /\ UNCHANGED << hfdcan1_Init, buf_vars, flag_vars, fdcan, env_vars, system_state,
                    pc, frame, isr_vars, auto_i >>

(***************************************************************************)
(* my_CAN_start()                                                          *)
(***************************************************************************)
\* Variant: the status is not tested.
StartAllowedAlways(st) == TRUE

\* if (!can_status.is_set) return false
StartAllowed(st) == st.is_set

\* The filter element my_CAN_start fills in from the stored status.
StartFilter(st) == [FilterID1 |-> st.filter_id, FilterID2 |-> st.mask_id]

\* Variant: run mode is entered whatever my_CAN_start returned.
QuitStateAlways(started, state) == "STATE_RUN"

\* settings_menu, case 'q': if (my_CAN_start()) { system_state = STATE_RUN; return; }
QuitState(started, state) == IF started THEN "STATE_RUN" ELSE state

my_CAN_start ==
    /\ InMenu
    /\ IF StartAllowed(can_status)
       THEN /\ sFilterConfig' = StartFilter(can_status)
            /\ fdcan' = HAL_FDCAN_ConfigFilter(
                            HAL_FDCAN_ConfigGlobalFilter(
                                HAL_FDCAN_Init(fdcan, hfdcan1_Init), "reject"),
                            sFilterConfig')
            /\ tried' = << >>
            /\ fills' = << >>
            /\ uart' = << >>
            /\ hal_calls' = << HalCall("HAL_FDCAN_Init", 0, 0),
                               HalCall("HAL_FDCAN_ConfigGlobalFilter", 0, 0),
                               HalCall("HAL_FDCAN_ConfigFilter",
                                       sFilterConfig'.FilterID1,
                                       sFilterConfig'.FilterID2) >>
            /\ call' = Called("start", 0)
            /\ pc' = "start_start"
            /\ UNCHANGED system_state
       ELSE /\ call' = Returned(Called("start", 0), FALSE, Snapshot)
            /\ FreshRecords
            /\ system_state' = QuitState(FALSE, system_state)
            /\ UNCHANGED << sFilterConfig, fdcan, pc >>
    /\ UNCHANGED << can_status, hfdcan1_Init, buf_vars, flag_vars, env_vars, frame,
                    isr_vars, auto_i >>

my_CAN_start_Start ==
    /\ Foreground("start_start")
    /\ fdcan' = HAL_FDCAN_Start(fdcan)
    /\ hal_calls' = Append(hal_calls, HalCall("HAL_FDCAN_Start", 0, 0))
    /\ pc' = "start_notify"
    /\ UNCHANGED << system_state, cfg_vars, buf_vars, flag_vars, env_vars, frame, isr_vars,
                    probe_vars, uart, call >>

my_CAN_start_ActivateNotification ==
    /\ Foreground("start_notify")
    /\ fdcan' = HAL_FDCAN_ActivateNotification(fdcan)
    /\ hal_calls' = Append(hal_calls, HalCall("HAL_FDCAN_ActivateNotification", 0, 0))
    /\ call' = Returned(call, TRUE,
                        Snap(can_status, head, tail, CAN_ring_buffer, fdcan',
                             hardware_CAN_buffer_overflow, software_CAN_buffer_overflow))
    /\ system_state' = QuitState(TRUE, system_state)
    /\ pc' = "main"
    /\ UNCHANGED << cfg_vars, buf_vars, flag_vars, env_vars, frame, isr_vars,
                    probe_vars, uart >>

(***************************************************************************)
(* my_CAN_stop()                                                           *)
(***************************************************************************)
my_CAN_stop ==
    /\ InMain("STATE_MENU") \/ InMenu
    /\ fdcan' = HAL_FDCAN_Stop(fdcan)
    /\ tried' = << >>
    /\ fills' = << >>
    /\ uart' = << >>
    /\ hal_calls' = << HalCall("HAL_FDCAN_Stop", 0, 0) >>
    /\ call' = Called("stop", 0)
    /\ pc' = "stop_deactivate"
    /\ UNCHANGED << system_state, cfg_vars, buf_vars, flag_vars, env_vars, frame, isr_vars,
                    auto_i >>

my_CAN_stop_DeactivateNotification ==
    /\ Foreground("stop_deactivate")
    /\ fdcan' = HAL_FDCAN_DeactivateNotification(fdcan)
    /\ hal_calls' = Append(hal_calls,
                           HalCall("HAL_FDCAN_DeactivateNotification", 0, 0))
    /\ pc' = "stop_reset"
    /\ UNCHANGED << system_state, cfg_vars, buf_vars, flag_vars, env_vars, frame, isr_vars,
                    probe_vars, uart, call >>

\* Variant: only head is reset.
StopTailKept(t) == t

\* Variant: only tail is reset.
StopHeadKept(h) == h

\* head = tail = 0
StopHead(h) == 0

StopTail(t) == 0

my_CAN_stop_Reset ==
    /\ Foreground("stop_reset")
    /\ tail' = StopTail(tail)
    /\ head' = StopHead(head)
    /\ enq_log' = << >>
    /\ pop_log' = << >>
    /\ burst' = << >>
    /\ burst_start' = [by |-> "reset", occ |-> Occupancy(head', tail'),
                        was_full |-> FALSE, after_drop |-> FALSE,
                        ovf |-> software_CAN_buffer_overflow]
    /\ call' = Returned(call, 0,
                        Snap(can_status, head', tail', CAN_ring_buffer, fdcan,
                             hardware_CAN_buffer_overflow, software_CAN_buffer_overflow))
    /\ pc' = "menu"
    /\ UNCHANGED << system_state, cfg_vars, CAN_ring_buffer, flag_vars, fdcan, env_vars, frame,
                    isr_vars, probe_vars, uart, hal_calls >>

(***************************************************************************)
(* my_CAN_auto_configuration(to_print) and check_Fifo()                    *)
(***************************************************************************)
Last(q) == q[Len(q)]

\* Variant: the status is built afresh, without the stored filter and mask.
AutoStatusFresh(found, baudrate, st) == Status(found, baudrate, 0, 0)

\* return can_status = (my_CAN_Status){..., can_status.filter_id, can_status.mask_id}
AutoStatus(found, baudrate, st) == Status(found, baudrate, st.filter_id, st.mask_id)

my_CAN_auto_configuration ==
    /\ InMenu
    /\ auto_i' = 0
    /\ FreshRecords
    /\ call' = Called("auto", 0)
    /\ pc' = "auto_loop"
    /\ UNCHANGED << system_state, cfg_vars, buf_vars, flag_vars, fdcan, env_vars, frame, isr_vars >>

\* Variant: the sweep stops one entry short of the table.
AutoMoreShort(i) == i < baudrates_nbr - 1

\* for (int i = 0; i < baudrates_nbr; i++)
AutoMore(i) == i < baudrates_nbr

\* The table entry attempt i applies (i counts from 0 as in the source).
AutoEntry(i) == can_timings[i + 1]

\* Loop head: apply entry i and enter check_Fifo, or leave the loop unconfigured.
my_CAN_auto_configuration_Apply ==
    /\ Foreground("auto_loop")
    /\ IF AutoMore(auto_i)
       THEN /\ hfdcan1_Init' = NominalTiming(AutoEntry(auto_i))
            /\ fdcan' = HAL_FDCAN_Init(
                            HAL_FDCAN_ConfigGlobalFilter(
                                HAL_FDCAN_Init(fdcan, hfdcan1_Init'), "accept"),
                            hfdcan1_Init')
            /\ tried' = Append(tried, auto_i)
            /\ hal_calls' = hal_calls \o
                              << HalCall("HAL_FDCAN_Init", auto_i, 0),
                                 HalCall("HAL_FDCAN_ConfigGlobalFilter", auto_i, 0),
                                 HalCall("HAL_FDCAN_Init", auto_i, 0) >>
            /\ pc' = "fifo_start"
            /\ UNCHANGED << can_status, call, auto_i >>
       ELSE /\ can_status' = AutoStatus(FALSE, 0, can_status)
            /\ call' = Returned(call, can_status',
                                [Snapshot EXCEPT !.status = can_status'])
            /\ auto_i' = 0
            /\ pc' = "menu"
            /\ UNCHANGED << hfdcan1_Init, fdcan, tried, hal_calls >>
    /\ UNCHANGED << system_state, sFilterConfig, buf_vars, flag_vars, env_vars, frame,
                    isr_vars, fills, uart >>

\* HAL_FDCAN_Start; the HAL_Delay(WAIT_FOR_TRAFFIC) that follows is the time
\* the model spends at "fifo_check" before the fill level is read.
check_Fifo_Start ==
    /\ Foreground("fifo_start")
    /\ fdcan' = HAL_FDCAN_Start(fdcan)
    /\ hal_calls' = Append(hal_calls, HalCall("HAL_FDCAN_Start", auto_i, 0))
    /\ pc' = "fifo_check"
    /\ UNCHANGED << system_state, cfg_vars, buf_vars, flag_vars, env_vars, frame, isr_vars,
                    probe_vars, uart, call >>

check_Fifo_FillLevel ==
    /\ Foreground("fifo_check")
    /\ fills' = Append(fills, HAL_FDCAN_GetRxFifoFillLevel(fdcan))
    /\ hal_calls' = Append(hal_calls,
                           HalCall("HAL_FDCAN_GetRxFifoFillLevel", auto_i, 0))
    /\ pc' = "fifo_stop"
    /\ UNCHANGED << system_state, cfg_vars, buf_vars, flag_vars, fdcan, env_vars, frame, isr_vars,
                    auto_i, tried, uart, call >>

\* Variant: one queued frame does not count as traffic.
FifoHasTrafficMany(level) == level > 1

\* check_Fifo's result: traffic was seen.
FifoHasTraffic(level) == level > 0

\* Variant: the controller is stopped only when no traffic was seen.
CheckFifoStopOnMiss(p, found) == IF found THEN p ELSE HAL_FDCAN_Stop(p)

\* if (fill level > 0) { HAL_FDCAN_Stop; return true; } HAL_FDCAN_Stop; return false;
CheckFifoStop(p, found) == HAL_FDCAN_Stop(p)

\* HAL_FDCAN_Stop and the return of check_Fifo into the loop body.
check_Fifo_Stop ==
    /\ Foreground("fifo_stop")
    /\ fdcan' = CheckFifoStop(fdcan, FifoHasTraffic(Last(fills)))
    /\ hal_calls' = Append(hal_calls, HalCall("HAL_FDCAN_Stop", auto_i, 0))
    /\ IF FifoHasTraffic(Last(fills))
       THEN /\ can_status' = AutoStatus(TRUE, AutoEntry(auto_i).baudrate, can_status)
            /\ call' = Returned(call, can_status',
                                Snap(can_status', head, tail, CAN_ring_buffer, fdcan',
                                     hardware_CAN_buffer_overflow,
                                     software_CAN_buffer_overflow))
            /\ auto_i' = 0
            /\ pc' = "menu"
       ELSE /\ auto_i' = auto_i + 1
            /\ pc' = "auto_loop"
            /\ UNCHANGED << can_status, call >>
    /\ UNCHANGED << system_state, hfdcan1_Init, sFilterConfig, buf_vars, flag_vars, env_vars, frame,
                    isr_vars, tried, fills, uart >>

(***************************************************************************)
(* printf conversions used by the report: %03X, %02X (upper-case hex,      *)
(* zero-padded to a minimum width) and %d.                                 *)
(***************************************************************************)
HexDigit == << "0", "1", "2", "3", "4", "5", "6", "7",
               "8", "9", "A", "B", "C", "D", "E", "F" >>

RECURSIVE HexStr(_)
HexStr(n) ==
    IF n < 16 THEN HexDigit[n + 1]
    ELSE HexStr(n \div 16) \o HexDigit[(n % 16) + 1]

RECURSIVE DecStr(_)
DecStr(n) ==
    IF n < 10 THEN HexDigit[n + 1]
    ELSE DecStr(n \div 10) \o HexDigit[(n % 10) + 1]

RECURSIVE PadZero(_, _)
PadZero(str, width) ==
    IF Len(str) >= width THEN str ELSE PadZero("0" \o str, width)

FmtHex(n, width) == PadZero(HexStr(n), width)

\* for (int i = 0; i < frame.DataLength; i++) my_printf(" %02X", frame.Data[i]);
RECURSIVE PrintData(_, _)
PrintData(f, i) ==
    IF i < f.DataLength
    THEN " " \o FmtHex(f.Data[i + 1], 2) \o PrintData(f, i + 1)
    ELSE ""

\* Variant: the byte loop starts at index 1.
PrintFrameFromOne(f) ==
    "ID: 0x" \o FmtHex(f.Identifier, 3) \o ", DLC: " \o DecStr(f.DataLength)
        \o ", Data:" \o PrintData(f, 1) \o "\r\n\n"

\* The text the loop body of send_frame_over_UART prints for one frame.
PrintFrame(f) ==
    "ID: 0x" \o FmtHex(f.Identifier, 3) \o ", DLC: " \o DecStr(f.DataLength)
        \o ", Data:" \o PrintData(f, 0) \o "\r\n\n"

\* DEBUG_printf: the message between the two banners.
DebugPrint(msg) ==
    "\n\n\n$$$$$$$$$ DEBUG print START $$$$$$$$$\r\n" \o msg
        \o "$$$$$$$$$ DEBUG print END $$$$$$$$$$$\r\n\n\n"

HwNotice == [kind |-> "hw_overflow", text |-> DebugPrint("Hardware CAN FIFO overflow!\r\n")]

SwNotice == [kind |-> "sw_overflow", text |-> DebugPrint("Software CAN buffer overflow!\r\n")]

FrameLine(f) == [kind |-> "frame", text |-> PrintFrame(f)]

(***************************************************************************)
(* Ring buffer index arithmetic, shared by the callback and the pop.       *)
(***************************************************************************)
\* Variant: the index is not masked.
NextIndexUnmasked(x) == x + 1

\* (x + 1) & (SOFTWARE_CAN_BUFFER_SIZE - 1)
NextIndex(x) == BitAnd(x + 1, SOFTWARE_CAN_BUFFER_SIZE - 1)

\* The callback's full test: next_head == tail
\* Variant: the buffer is never taken to be full.
BufferFullNever(h, t) == FALSE

\* Variant: full already two slots ahead of tail.
BufferFullEarly(h, t) == NextIndex(NextIndex(h)) = t

BufferFull(h, t) == NextIndex(h) = t

\* Variant: one unread frame is taken for none.
BufferEmptyEarly(h, t) == h = t \/ NextIndex(t) = h

\* read_frame_from_software_CAN_buffer's empty test: head == tail
BufferEmpty(h, t) == h = t

(***************************************************************************)
(* send_frame_over_UART() and read_frame_from_software_CAN_buffer()        *)
(***************************************************************************)
\* Call; if (hardware_CAN_buffer_overflow)
\* Variant: the notice is printed whatever the flag says.
NoticeDueAlways(flag) == TRUE

\* if (hardware_CAN_buffer_overflow) ... if (software_CAN_buffer_overflow) ...
NoticeDue(flag) == flag

\* Entry and the first statement:
\* if (hardware_CAN_buffer_overflow) { clear it; DEBUG_printf(...) }
send_frame_over_UART ==
    /\ InMain("STATE_RUN") \/ InMenu
    /\ hal_calls' = << >>
    /\ tried' = << >>
    /\ fills' = << >>
    /\ uart' = IF NoticeDue(hardware_CAN_buffer_overflow) THEN << HwNotice >> ELSE << >>
    /\ hardware_CAN_buffer_overflow' = FALSE
    /\ call' = Called("report", 0)
    /\ pc' = "report_sw_test"
    /\ UNCHANGED << system_state, cfg_vars, buf_vars, software_CAN_buffer_overflow,
                    fdcan, env_vars, frame, isr_vars, auto_i >>

\* if (software_CAN_buffer_overflow)
send_frame_over_UART_SwTest ==
    /\ Foreground("report_sw_test")
    /\ pc' = IF NoticeDue(software_CAN_buffer_overflow) THEN "report_sw_clear"
             ELSE "read_test"
    /\ UNCHANGED << system_state, cfg_vars, buf_vars, flag_vars, fdcan, env_vars, frame, isr_vars,
                    probe_vars, uart, call, hal_calls >>

send_frame_over_UART_SwNotice ==
    /\ Foreground("report_sw_clear")
    /\ software_CAN_buffer_overflow' = FALSE
    /\ uart' = Append(uart, SwNotice)
    /\ pc' = "read_test"
    /\ UNCHANGED << system_state, cfg_vars, buf_vars, hardware_CAN_buffer_overflow, fdcan, env_vars,
                    frame, isr_vars, probe_vars, call, hal_calls >>

\* while (read_frame_from_software_CAN_buffer(&frame)): if (head == tail) return false
read_frame_Test ==
    /\ Foreground("read_test")
    /\ IF BufferEmpty(head, tail)
       THEN /\ call' = Returned(call, 0, Snapshot)
            /\ frame' = ZeroFrame
            /\ pc' = call.from
       ELSE /\ pc' = "read_copy"
            /\ UNCHANGED << call, frame >>
    /\ UNCHANGED << system_state, cfg_vars, buf_vars, flag_vars, fdcan, env_vars,
                    isr_vars, probe_vars, uart, hal_calls >>

\* Variant: the pop reads the newest frame.
ReadSlotNewest(h, t) == (h + SOFTWARE_CAN_BUFFER_SIZE - 1) % SOFTWARE_CAN_BUFFER_SIZE

\* The slot the pop reads: CAN_ring_buffer[tail]
ReadSlot(h, t) == t

\* *frame = CAN_ring_buffer[tail]
read_frame_Copy ==
    /\ Foreground("read_copy")
    /\ frame' = CAN_ring_buffer[ReadSlot(head, tail)]
    /\ pc' = "read_advance"
    /\ UNCHANGED << system_state, cfg_vars, buf_vars, flag_vars, fdcan, env_vars, isr_vars,
                    probe_vars, uart, call, hal_calls >>

\* tail = (tail + 1) & (SIZE - 1); return true; then the loop body prints the frame
read_frame_Advance ==
    /\ Foreground("read_advance")
    /\ tail' = NextIndex(tail)
    /\ pop_log' = Append(pop_log, frame)
    /\ burst' = << >>
    /\ burst_start' = [by |-> "pop", occ |-> Occupancy(head, tail'),
                        was_full |-> Occupancy(head, tail) = SOFTWARE_CAN_BUFFER_SIZE - 1,
                        after_drop |-> burst # << >> /\ burst[Len(burst)].res = "dropped",
                        ovf |-> software_CAN_buffer_overflow]
    /\ uart' = Append(uart, FrameLine(frame))
    /\ pc' = "read_test"
    /\ UNCHANGED << system_state, cfg_vars, head, CAN_ring_buffer, enq_log, flag_vars, fdcan,
                    env_vars, frame, isr_vars, probe_vars, call, hal_calls >>

(***************************************************************************)
(* The bus and the Rx FIFO 0 of the controller.  A frame reaches the       *)
(* controller only while it runs with the timing of the bus's bit-rate; an *)
(* accepted frame is queued and raises "new message", or is lost when the  *)
(* FIFO is full and raises "message lost".                                 *)
(***************************************************************************)
\* The received message as the HAL hands it out: header fields and payload.
RxMessage(n) ==
    [Identifier |-> BusFrame(n).Identifier,
     DataLength |-> BusFrame(n).DataLength,
     payload |-> [k \in 1..BusFrame(n).DataLength |-> BusFrame(n).Data[k]]]

BusFrameArrives ==
    /\ arrivals < MaxArrivals
    /\ fdcan.running
    /\ bus_rate # 0
    /\ RateOfTiming(fdcan.timing) = bus_rate
    /\ arrivals' = arrivals + 1
    /\ fdcan' = IF ~Accepts(fdcan, RxMessage(arrivals').Identifier)
                THEN fdcan
                ELSE IF Len(fdcan.fifo) < HwFifoDepth
                THEN [fdcan EXCEPT !.fifo = Append(@, RxMessage(arrivals')),
                                   !.ir_new = TRUE]
                ELSE [fdcan EXCEPT !.ir_lost = TRUE]
    /\ UNCHANGED << system_state, cfg_vars, buf_vars, flag_vars, bus_rate, pc, auto_i, frame,
                    isr_vars, call, hal_calls, tried, fills, uart >>

(***************************************************************************)
(* HAL_FDCAN_RxFifo0Callback(hfdcan, RxFifo0ITs)                           *)
(***************************************************************************)
\* RxFifo0ITs as the HAL's interrupt handler computes it: the pending Rx
\* FIFO 0 flags that are enabled.
RxFifo0ITs(p) ==
    [new_message |-> p.ir_new /\ p.ie_new, message_lost |-> p.ir_lost /\ p.ie_lost]

\* Variant: every invocation is taken to report a lost message.
LostFlaggedAlways(its) == TRUE

\* if (RxFifo0ITs & FDCAN_IT_RX_FIFO0_MESSAGE_LOST)
LostFlagged(its) == its.message_lost

\* The interrupt is taken: the HAL clears the flags it reports and calls the
\* callback, which first handles "message lost".
HAL_FDCAN_RxFifo0Callback ==
    /\ isr_pc = "idle"
    /\ RxFifo0ITs(fdcan).new_message \/ RxFifo0ITs(fdcan).message_lost
    /\ hardware_CAN_buffer_overflow' =
           IF LostFlagged(RxFifo0ITs(fdcan)) THEN TRUE ELSE hardware_CAN_buffer_overflow
    /\ fdcan' = [fdcan EXCEPT
                   !.ir_new = @ /\ ~RxFifo0ITs(fdcan).new_message,
                   !.ir_lost = @ /\ ~RxFifo0ITs(fdcan).message_lost]
    /\ isr_pc' = "loop"
    /\ isr_i' = 0
    /\ call' = IF call.done THEN call ELSE [call EXCEPT !.intr = TRUE]
    /\ UNCHANGED << system_state, cfg_vars, buf_vars, software_CAN_buffer_overflow, env_vars, pc,
                    auto_i, frame, hal_calls, tried, fills, uart >>

\* Variant: the loop bound is inclusive.
CallbackMoreInclusive(i) == i <= IsrReadMax

\* for (int i = 0; i < 32; i++)
CallbackMore(i) == i < IsrReadMax

\* frame.Identifier = rxHeader.Identifier; frame.DataLength = rxHeader.DataLength;
\* memcpy(frame.Data, rxData, rxHeader.DataLength), into a zeroed frame from
\* a zeroed rxData[8] that the HAL filled with the payload.
FrameOfRx(m) ==
    Frame(m.Identifier, m.DataLength % 256,
          [k \in 1..8 |-> IF k <= m.DataLength /\ k <= Len(m.payload)
                          THEN m.payload[k] ELSE 0])

\* One enqueue attempt as the burst records it: the frame, whether it was
\* stored or dropped, the overflow flag after it, head before and after, tail.
Attempt(f, res, ovf, h0, h1, t) ==
    [frame |-> f, res |-> res, ovf |-> ovf, h0 |-> h0, h1 |-> h1, t |-> t]

\* Variant: the frame is written to the slot after head.
StoreSlotNext(h) == NextIndex(h)

\* CAN_ring_buffer[head] = frame
StoreSlot(h) == h

\* Variant: a drop leaves the flag as it is.
DropFlagKept(flag) == flag

\* software_CAN_buffer_overflow = true
DropFlag(flag) == TRUE

\* Variant: head moves on by two.
StoredHeadSkip(h) == NextIndex(NextIndex(h))

\* head = next_head
StoredHead(h) == NextIndex(h)

\* One iteration of the callback's loop: read a message or break, then
\* store the frame at head or drop it.
HAL_FDCAN_RxFifo0Callback_Loop ==
    /\ isr_pc = "loop"
    /\ IF CallbackMore(isr_i) /\ fdcan.fifo # << >>
       THEN /\ fdcan' = [fdcan EXCEPT !.fifo = Tail(@)]
            /\ isr_i' = isr_i + 1
            /\ UNCHANGED isr_pc
            /\ IF BufferFull(head, tail)
               THEN /\ software_CAN_buffer_overflow' = DropFlag(software_CAN_buffer_overflow)
                    /\ UNCHANGED << head, CAN_ring_buffer, enq_log >>
                    /\ burst' = Append(burst,
                                       Attempt(FrameOfRx(Head(fdcan.fifo)), "dropped",
                                               software_CAN_buffer_overflow',
                                               head, head', tail))
               ELSE /\ CAN_ring_buffer' =
                           [CAN_ring_buffer EXCEPT ![StoreSlot(head)] = FrameOfRx(Head(fdcan.fifo))]
                    /\ head' = StoredHead(head)
                    /\ UNCHANGED software_CAN_buffer_overflow
                    /\ enq_log' = Append(enq_log, FrameOfRx(Head(fdcan.fifo)))
                    /\ burst' = Append(burst,
                                       Attempt(FrameOfRx(Head(fdcan.fifo)), "stored",
                                               software_CAN_buffer_overflow',
                                               head, head', tail))
       ELSE /\ isr_pc' = "idle"
            /\ isr_i' = 0
            /\ UNCHANGED << fdcan, head, CAN_ring_buffer, enq_log, burst,
                            software_CAN_buffer_overflow >>
    /\ UNCHANGED << system_state, cfg_vars, tail, pop_log, burst_start,
                    hardware_CAN_buffer_overflow, env_vars, pc, auto_i, frame, call,
                    hal_calls, tried, fills, uart >>

(***************************************************************************)
(* The user button (PC13, EXTI): asks the main loop for the menu.          *)
(***************************************************************************)
UserButton ==
    /\ system_state = "STATE_RUN"
    /\ system_state' = "STATE_MENU"
    /\ UNCHANGED << cfg_vars, buf_vars, flag_vars, fdcan, env_vars, pc, auto_i, frame,
                    isr_vars, call, hal_calls, tried, fills, uart >>

(***************************************************************************)
(* The system.                                                             *)
(***************************************************************************)
Next ==
    \/ my_CAN_manual_configuration(BaudrateInputs)
    \/ my_CAN_set_filter_mask(FilterInputs, MaskInputs)
    \/ my_CAN_start
    \/ my_CAN_start_Start
    \/ my_CAN_start_ActivateNotification
    \/ my_CAN_stop
    \/ my_CAN_stop_DeactivateNotification
    \/ my_CAN_stop_Reset
    \/ my_CAN_auto_configuration
    \/ my_CAN_auto_configuration_Apply
    \/ check_Fifo_Start
    \/ check_Fifo_FillLevel
    \/ check_Fifo_Stop
    \/ send_frame_over_UART
    \/ send_frame_over_UART_SwTest
    \/ send_frame_over_UART_SwNotice
    \/ read_frame_Test
    \/ read_frame_Copy
    \/ read_frame_Advance
    \/ UserButton
    \/ BusFrameArrives
    \/ HAL_FDCAN_RxFifo0Callback
    \/ HAL_FDCAN_RxFifo0Callback_Loop

Spec == Init /\ [][Next]_vars

(***************************************************************************)
(* Scheduling: the foreground goes on executing a function it is in (the   *)
(* steps of my_CAN_stop are taken whenever no handler runs), and a handler *)
(* that was entered runs its loop to the end.                              *)
(***************************************************************************)
SpecStop ==
    /\ Spec
    /\ WF_vars(my_CAN_stop_DeactivateNotification)
    /\ WF_vars(my_CAN_stop_Reset)
    /\ WF_vars(HAL_FDCAN_RxFifo0Callback_Loop)

(***************************************************************************)
(* Scheduling of the reporter: the main loop goes on calling               *)
(* send_frame_over_UART (or, once the button asked for the menu,           *)
(* settings_menu, which begins with my_CAN_stop), every function the       *)
(* foreground is in goes on whenever no handler runs, a pending enabled    *)
(* interrupt is taken and its handler runs to the end.                     *)
(***************************************************************************)
SpecReport ==
    /\ Spec
    /\ SF_vars(send_frame_over_UART)
    /\ WF_vars(send_frame_over_UART_SwTest)
    /\ WF_vars(send_frame_over_UART_SwNotice)
    /\ WF_vars(read_frame_Test)
    /\ WF_vars(read_frame_Copy)
    /\ WF_vars(read_frame_Advance)
    /\ WF_vars(my_CAN_stop)
    /\ WF_vars(my_CAN_stop_DeactivateNotification)
    /\ WF_vars(my_CAN_stop_Reset)
    /\ WF_vars(my_CAN_start_Start)
    /\ WF_vars(my_CAN_start_ActivateNotification)
    /\ WF_vars(my_CAN_auto_configuration_Apply)
    /\ WF_vars(check_Fifo_Start)
    /\ WF_vars(check_Fifo_FillLevel)
    /\ WF_vars(check_Fifo_Stop)
    /\ WF_vars(HAL_FDCAN_RxFifo0Callback)
    /\ WF_vars(HAL_FDCAN_RxFifo0Callback_Loop)

(***************************************************************************)
(* The configuration functions alone, over the wider requests: the menu    *)
(* is entered (capture is stopped) and the user only sets the bit-rate     *)
(* and the filter.                                                         *)
(***************************************************************************)
NextConfig ==
    \/ my_CAN_stop
    \/ my_CAN_stop_DeactivateNotification
    \/ my_CAN_stop_Reset
    \/ my_CAN_manual_configuration(AllBaudrateInputs)
    \/ my_CAN_set_filter_mask(AllFilterInputs, AllFilterInputs)

SpecConfig == Init /\ [][NextConfig]_vars

(***************************************************************************)
(* Reception over every kind of data length code.  A classic frame may     *)
(* carry a DLC of 9..15 (its data field is then 8 bytes long); the         *)
(* controller stores the DLC as received and the HAL reports it in         *)
(* rxHeader.DataLength and copies DLCtoBytes[DLC] bytes to the caller.     *)
(***************************************************************************)
DlcCodes == { 0, 8, 9, 15 }

DLCtoBytes == << 0, 1, 2, 3, 4, 5, 6, 7, 8, 12, 16, 20, 24, 32, 48, 64 >>

\* The n-th frame of the bus received with the data length code dlc.
RxMessageOfLength(n, dlc) ==
    [Identifier |-> Cyclic(Identifiers, n),
     DataLength |-> dlc,
     payload |-> [k \in 1..DLCtoBytes[dlc + 1] |-> BusByte(n, k)]]

\* memcpy(frame.Data, rxData, rxHeader.DataLength): the number of bytes
\* written from frame.Data[0] on.
MemcpyCount(m) == m.DataLength

BusFrameArrivesAnyLength ==
    /\ arrivals < MaxArrivals
    /\ fdcan.running
    /\ bus_rate # 0
    /\ RateOfTiming(fdcan.timing) = bus_rate
    /\ arrivals' = arrivals + 1
    /\ \E dlc \in DlcCodes :
           fdcan' = IF ~Accepts(fdcan, RxMessageOfLength(arrivals', dlc).Identifier)
                    THEN fdcan
                    ELSE IF Len(fdcan.fifo) < HwFifoDepth
                    THEN [fdcan EXCEPT !.fifo = Append(@, RxMessageOfLength(arrivals', dlc)),
                                       !.ir_new = TRUE]
                    ELSE [fdcan EXCEPT !.ir_lost = TRUE]
    /\ UNCHANGED << system_state, cfg_vars, buf_vars, flag_vars, bus_rate, pc, auto_i, frame,
                    isr_vars, call, hal_calls, tried, fills, uart >>

\* Capture alone: the menu configures and starts the controller, frames of
\* every kind of length arrive and the callback stores them.
NextLengths ==
    \/ my_CAN_stop
    \/ my_CAN_stop_DeactivateNotification
    \/ my_CAN_stop_Reset
    \/ my_CAN_manual_configuration(BaudrateInputs)
    \/ my_CAN_start
    \/ my_CAN_start_Start
    \/ my_CAN_start_ActivateNotification
    \/ BusFrameArrivesAnyLength
    \/ HAL_FDCAN_RxFifo0Callback
    \/ HAL_FDCAN_RxFifo0Callback_Loop

SpecLengths == Init /\ [][NextLengths]_vars

(***************************************************************************)
(* Properties.  A finished call is recognised by call.op and call.done;    *)
(* call.before is the state it was called in.                              *)
(***************************************************************************)
IsPrefix(p, q) == Len(p) <= Len(q) /\ \A i \in 1..Len(p) : p[i] = q[i]

\* << 0, 1, ..., n - 1 >>
FirstIndices(n) == [i \in 1..n |-> i - 1]

CallsOf(name) == { i \in 1..Len(hal_calls) : hal_calls[i].fn = name }

FrameLines == SelectSeq(uart, LAMBDA l : l.kind = "frame")

\* C1: manual configuration with a rate of the bit-timing table leaves the
\* status configured at that rate, any other value leaves it unconfigured
\* at rate 0; the filter and the mask are what they were before the call and
\* the returned status is the stored one.
C1_ManualConfigure ==
    call.op = "manual" /\ call.done =>
        /\ call.arg \in TableRates =>
               can_status.is_set /\ can_status.baudrate = call.arg
        /\ call.arg \notin TableRates =>
               ~can_status.is_set /\ can_status.baudrate = 0
        /\ can_status.filter_id = call.before.status.filter_id
        /\ can_status.mask_id = call.before.status.mask_id
        /\ call.val = can_status

\* The last table rate is accepted while a filter and a mask are stored.
C1_Witness ==
    /\ call.op = "manual" /\ call.done
    /\ call.arg = 1000000
    /\ can_status = Status(TRUE, 1000000, 2047, 291)
    /\ ~call.before.status.is_set

\* C2: the stored filter and mask are always within 0..0x7FF, and setting
\* them stores the low eleven bits of each argument.
C2_FilterMasked ==
    /\ can_status.filter_id \in 0..2047
    /\ can_status.mask_id \in 0..2047
    /\ call.op = "set_filter" /\ call.done =>
           /\ can_status.filter_id = call.arg[1] % 2048
           /\ can_status.mask_id = call.arg[2] % 2048
           /\ call.val = can_status

\* 0x1FFF is stored as 0x7FF (and 0x800 as 0).
C2_Witness ==
    /\ call.op = "set_filter" /\ call.done
    /\ call.arg = << 8191, 2048 >>
    /\ can_status.filter_id = 2047
    /\ can_status.mask_id = 0

\* C3 as stated: from an empty buffer SOFTWARE_CAN_BUFFER_SIZE consecutive
\* enqueues are stored and the next one is the first dropped.
C3_SizeEnqueuesStored ==
    burst_start.occ = 0 =>
        \A j \in 1..Len(burst) :
            /\ j <= SOFTWARE_CAN_BUFFER_SIZE => burst[j].res = "stored"
            /\ j = SOFTWARE_CAN_BUFFER_SIZE + 1 =>
                   burst[j].res = "dropped" /\ burst[j].ovf

\* C3: from an empty buffer, with no pop in between, the first
\* SOFTWARE_CAN_BUFFER_SIZE - 1 enqueues are stored (head moves on by one,
\* the overflow flag is not raised by them) and the enqueue number
\* SOFTWARE_CAN_BUFFER_SIZE is the first dropped one: it and every later one
\* leaves head alone and sets the software overflow flag.
C3_CapacityIsSizeLessOne ==
    burst_start.occ = 0 =>
        \A j \in 1..Len(burst) :
            IF j <= SOFTWARE_CAN_BUFFER_SIZE - 1
            THEN /\ burst[j].res = "stored"
                 /\ burst[j].h1 = (burst[j].h0 + 1) % SOFTWARE_CAN_BUFFER_SIZE
                 /\ ~burst_start.ovf => ~burst[j].ovf
            ELSE /\ burst[j].res = "dropped"
                 /\ burst[j].h1 = burst[j].h0
                 /\ burst[j].ovf

\* The buffer was emptied by pops away from index 0, then filled until the
\* enqueue number SOFTWARE_CAN_BUFFER_SIZE was dropped.
C3_Witness ==
    /\ burst_start.occ = 0 /\ burst_start.by = "pop" /\ ~burst_start.ovf
    /\ Len(burst) = SOFTWARE_CAN_BUFFER_SIZE
    /\ burst[SOFTWARE_CAN_BUFFER_SIZE].res = "dropped"
    /\ burst[SOFTWARE_CAN_BUFFER_SIZE - 1].res = "stored"
    /\ software_CAN_buffer_overflow

\* C4: after one pop from a full buffer the next enqueue is stored: the
\* frame is in the slot head pointed at and head has moved on by one.
C4_EnqueueAfterPop ==
    burst_start.by = "pop" /\ burst_start.was_full /\ Len(burst) >= 1 =>
        /\ burst[1].res = "stored"
        /\ burst[1].h1 = (burst[1].h0 + 1) % SOFTWARE_CAN_BUFFER_SIZE
        /\ burst[1].h1 # burst[1].h0
        /\ CAN_ring_buffer[burst[1].h0] = burst[1].frame

\* An enqueue was dropped, one frame was popped, the next enqueue is stored.
C4_Witness ==
    /\ burst_start.by = "pop" /\ burst_start.was_full /\ burst_start.after_drop
    /\ Len(burst) = 1
    /\ burst[1].res = "stored"

\* C5: since the last stop, the frames popped are a prefix of the frames
\* stored by the interrupt, in the same order and with the same contents,
\* and no frame is popped twice.
C5_StrictFifo ==
    /\ IsPrefix(pop_log, enq_log)
    /\ \A i, j \in 1..Len(pop_log) : pop_log[i] = pop_log[j] => i = j

\* Three frames popped in arrival order by a report the interrupt cut into,
\* with a fourth stored meanwhile.
C5_Witness ==
    /\ call.op = "report" /\ call.intr
    /\ pop_log = << FrameOfRx(RxMessage(1)), FrameOfRx(RxMessage(2)),
                    FrameOfRx(RxMessage(3)) >>
    /\ Len(enq_log) >= 4

\* C6: every stop that is called returns, whatever state it is called in;
\* when it has returned the buffer is empty with head = tail = 0, the
\* controller is stopped and the notification is off; a stop right after a
\* stop leaves the indices, the status, the controller run state and the
\* notification state as it found them.
C6_StopResets ==
    /\ (call.op = "stop" /\ ~call.done) ~> (call.op = "stop" /\ call.done)
    /\ [](call.op = "stop" /\ call.done =>
             /\ head = 0 /\ tail = 0
             /\ Unread(CAN_ring_buffer, head, tail) = << >>
             /\ ~fdcan.running /\ ~fdcan.ie_new
             /\ can_status = call.before.status)
    /\ [](call.op = "stop" /\ call.done /\ call.again =>
             /\ head = call.before.head /\ tail = call.before.tail
             /\ can_status = call.before.status
             /\ fdcan.running = call.before.running
             /\ fdcan.ie_new = call.before.ie_new)

\* A second stop has returned after a first one that was called with the
\* controller running and discarded two or more pending frames.
C6_Witness ==
    /\ call.op = "stop" /\ call.done /\ call.again
    /\ call.prev_unread >= 2
    /\ head = 0 /\ tail = 0

\* C7: the sweep applies the table entries one after the other from index 0,
\* each once, the controller carrying the timing of the entry being tried;
\* when no entry showed a queued frame it has tried every entry and leaves
\* (and returns) the status unconfigured at rate 0.
C7_SweepWithoutTraffic ==
    call.op = "auto" =>
        /\ tried = FirstIndices(Len(tried))
        /\ Len(tried) <= baudrates_nbr
        /\ pc \in { "fifo_start", "fifo_check", "fifo_stop" } =>
               /\ tried # << >>
               /\ fdcan.timing = NominalTiming(can_timings[Len(tried)])
               /\ fdcan.nonMatchingStd = "accept"
        /\ call.done /\ (\A j \in 1..Len(fills) : fills[j] = 0) =>
               /\ tried = FirstIndices(baudrates_nbr)
               /\ Len(fills) = baudrates_nbr
               /\ ~can_status.is_set
               /\ can_status.baudrate = 0
               /\ call.val = can_status

\* A configured sniffer on a bus with traffic nevertheless sweeps the whole
\* table without seeing a frame and ends unconfigured.
C7_Witness ==
    /\ call.op = "auto" /\ call.done
    /\ call.before.status.is_set
    /\ bus_rate # 0
    /\ Len(tried) = baudrates_nbr
    /\ ~can_status.is_set /\ can_status.baudrate = 0

\* C8: a queued frame is only ever seen at the entry whose rate is the
\* bus's, and it ends the sweep: the entries 0..k were tried once each in
\* order, none after k, and the status left (and returned) is configured at
\* entry k's rate.
C8_SweepStopsAtTraffic ==
    call.op = "auto" =>
        /\ \A j \in 1..Len(fills) :
               /\ j < Len(fills) => fills[j] = 0
               /\ fills[j] > 0 => can_timings[j].baudrate = bus_rate
        /\ fills # << >> /\ fills[Len(fills)] > 0 =>
               /\ pc = "fifo_stop" \/ call.done
               /\ tried = FirstIndices(Len(fills))
        /\ call.done /\ fills # << >> /\ fills[Len(fills)] > 0 =>
               /\ can_status.is_set
               /\ can_status.baudrate = can_timings[Len(fills)].baudrate
               /\ can_status.baudrate = bus_rate
               /\ can_status.filter_id = call.before.status.filter_id
               /\ can_status.mask_id = call.before.status.mask_id
               /\ call.val = can_status

\* Traffic at 500000 bit/s, the tenth entry: ten entries tried, nine empty.
C8_Witness ==
    /\ call.op = "auto" /\ call.done
    /\ bus_rate = 500000
    /\ tried = << 0, 1, 2, 3, 4, 5, 6, 7, 8, 9 >>
    /\ fills[10] > 0
    /\ can_status.is_set /\ can_status.baudrate = 500000

\* C9: start on an unconfigured status returns false and touches nothing of
\* the controller; on a configured status it returns true having
\* programmed the filter element with the stored filter and mask, then
\* started the controller once, then enabled the notification once.
C9_StartContract ==
    call.op = "start" /\ call.done =>
        IF ~call.before.status.is_set
        THEN /\ call.val = FALSE
             /\ hal_calls = << >>
             /\ fdcan.running = call.before.running
             /\ fdcan.ie_new = call.before.ie_new
        ELSE /\ call.val = TRUE
             /\ Cardinality(CallsOf("HAL_FDCAN_Start")) = 1
             /\ Cardinality(CallsOf("HAL_FDCAN_ActivateNotification")) = 1
             /\ Cardinality(CallsOf("HAL_FDCAN_ConfigFilter")) = 1
             /\ \A i \in CallsOf("HAL_FDCAN_ConfigFilter") :
                    /\ hal_calls[i].a = can_status.filter_id
                    /\ hal_calls[i].b = can_status.mask_id
                    /\ \A j \in CallsOf("HAL_FDCAN_Start") : i < j
             /\ \A j \in CallsOf("HAL_FDCAN_Start") :
                    \A k \in CallsOf("HAL_FDCAN_ActivateNotification") : j < k
             /\ fdcan.filter = << can_status.filter_id, can_status.mask_id >>
             /\ fdcan.nonMatchingStd = "reject"
             /\ fdcan.running /\ fdcan.ie_new

\* A configured start with the filter 0x7FF stored.
C9_Witness ==
    /\ call.op = "start" /\ call.done /\ call.val = TRUE
    /\ call.before.status = Status(TRUE, 500000, 2047, 0)
    /\ Len(hal_calls) = 5

\* The report lines expected for the frames of the bus, by identifier.
ExpectedLine(id) ==
    CASE id = 291 -> "ID: 0x123, DLC: 3, Data: AA BB CC\r\n\n"
      [] id = 2047 -> "ID: 0x7FF, DLC: 8, Data: AF C0 D1 E2 F3 04 15 26\r\n\n"
      [] id = 10 -> "ID: 0x00A, DLC: 0, Data:\r\n\n"
      [] id = 69 -> "ID: 0x045, DLC: 1, Data: B9\r\n\n"
      [] id = 256 -> "ID: 0x100, DLC: 5, Data: BE CF E0 F1 02\r\n\n"
      [] id = 1 -> "ID: 0x001, DLC: 3, Data: C3 D4 E5\r\n\n"
      [] OTHER -> "?"

\* C10: a report the interrupt did not cut into prints one line per frame
\* that was pending at the call, in FIFO order: identifier, data length,
\* the first data-length payload bytes and the terminator; the buffer is
\* empty (head = tail) when it returns.
C10_ReportFormat ==
    call.op = "report" /\ call.done /\ ~call.intr =>
        /\ Len(FrameLines) = Len(call.before.unread)
        /\ \A i \in 1..Len(FrameLines) :
               FrameLines[i].text = ExpectedLine(call.before.unread[i].Identifier)
        /\ call.after.head = call.after.tail
        /\ call.after.unread = << >>

\* The frame {0x123, 3, AA BB CC} alone is reported as the example line.
C10_Witness ==
    /\ call.op = "report" /\ call.done /\ ~call.intr
    /\ call.before.unread =
           << Frame(291, 3, << 170, 187, 204, 0, 0, 0, 0, 0 >>) >>
    /\ uart = << [kind |-> "frame", text |-> "ID: 0x123, DLC: 3, Data: AA BB CC\r\n\n"] >>
    /\ head = tail

\* C11: no step other than set_filter_mask changes the stored filter or
\* mask: not manual or auto configuration (found or not), start, stop, the
\* report or the interrupt; a finished auto configuration stores and
\* returns the filter and mask recorded before it.
C11_FilterKept ==
    /\ [][can_status'.filter_id # can_status.filter_id
            \/ can_status'.mask_id # can_status.mask_id
          => call'.op = "set_filter" /\ call' # call]_vars
    /\ [](call.op = "auto" /\ call.done =>
             /\ can_status.filter_id = call.before.status.filter_id
             /\ can_status.mask_id = call.before.status.mask_id
             /\ call.val.filter_id = call.before.status.filter_id
             /\ call.val.mask_id = call.before.status.mask_id)

\* An auto configuration ran through the table without finding traffic and
\* the filter 0x7FF set before it is still stored.
C11_Witness ==
    /\ call.op = "auto" /\ call.done
    /\ Len(tried) = baudrates_nbr
    /\ can_status = Status(FALSE, 0, 2047, 0)
    /\ call.before.status.filter_id = 2047

\* C12: a call of set_filter_mask, with capture stopped or running, leaves
\* is_set and baudrate of the status, the controller (run state,
\* notification enables, filter element, Rx FIFO), head, tail, the buffer
\* and both overflow flags as they were.
C12_SetFilterFrame ==
    [][call'.op = "set_filter" /\ call' # call =>
          /\ can_status'.is_set = can_status.is_set
          /\ can_status'.baudrate = can_status.baudrate
          /\ fdcan' = fdcan
          /\ head' = head /\ tail' = tail
          /\ CAN_ring_buffer' = CAN_ring_buffer
          /\ software_CAN_buffer_overflow' = software_CAN_buffer_overflow
          /\ hardware_CAN_buffer_overflow' = hardware_CAN_buffer_overflow
          /\ system_state' = system_state]_vars

\* The filter was set while capture ran with frames in the buffer and the
\* software overflow flag latched.
C12_Witness ==
    /\ call.op = "set_filter" /\ call.done
    /\ call.before.running /\ call.before.ie_new
    /\ call.before.status.is_set /\ can_status.is_set
    /\ call.before.unread # << >>
    /\ call.before.sw_ovf /\ software_CAN_buffer_overflow
    /\ fdcan.running /\ fdcan.ie_new

\* The foreground is inside settings_menu: it has left the main loop other
\* than for a report called from there.
InSettingsMenu == pc # "main" /\ ~(call.op = "report" /\ call.from = "main")

\* C13: the main loop enters settings_menu by my_CAN_stop; the only step
\* that returns from settings_menu is the end of a my_CAN_start that
\* succeeded: the status is configured, the controller is started, the
\* receive notification is enabled and system_state is STATE_RUN; no other
\* step sets system_state to STATE_RUN, and inside the menu it is never set.
C13_MenuReturns ==
    /\ [][pc = "main" /\ pc' # "main" /\ system_state = "STATE_MENU" =>
             pc' = "stop_deactivate" /\ call'.op = "stop" /\ ~fdcan'.running]_vars
    /\ [][InSettingsMenu /\ pc' = "main" =>
             /\ pc = "start_notify"
             /\ call'.op = "start" /\ call'.done /\ call'.val = TRUE
             /\ can_status'.is_set
             /\ fdcan'.running /\ fdcan'.ie_new
             /\ system_state' = "STATE_RUN"]_vars
    /\ [][system_state' = "STATE_RUN" /\ system_state # "STATE_RUN" =>
             InSettingsMenu /\ pc' = "main"]_vars
    /\ [](InSettingsMenu => system_state = "STATE_MENU")

\* With the rate configured and no filter set, 'q' made the menu return
\* into run mode.
C13_Witness ==
    /\ pc = "main" /\ system_state = "STATE_RUN"
    /\ call.op = "start" /\ call.done /\ call.val = TRUE /\ call.from = "menu"
    /\ can_status = Status(TRUE, 500000, 0, 0)
    /\ fdcan.running /\ fdcan.ie_new

\* The slots that hold frames not yet popped.
UnreadSlots ==
    { (tail + k) % SOFTWARE_CAN_BUFFER_SIZE : k \in 0..(Occupancy(head, tail) - 1) }

\* C14: no step of the interrupt callback moves tail or writes a slot that
\* holds a frame not yet popped, wherever the reporter stands; when the
\* callback reads a frame while head + 1 (masked) equals tail, the frame
\* is dropped: head, tail and the whole buffer stay as they are and the
\* software overflow flag is set.
C14_FullDropsFrame ==
    [][isr_pc = "loop" /\ arrivals' = arrivals =>
          /\ tail' = tail
          /\ \A k \in UnreadSlots : CAN_ring_buffer'[k] = CAN_ring_buffer[k]
          /\ (head + 1) % SOFTWARE_CAN_BUFFER_SIZE = tail /\ fdcan'.fifo # fdcan.fifo =>
                 /\ head' = head
                 /\ CAN_ring_buffer' = CAN_ring_buffer
                 /\ software_CAN_buffer_overflow'
                 /\ enq_log' = enq_log]_vars

\* A frame was dropped on a full buffer while the reporter stood between
\* its empty test and the copy of the oldest frame.
C14_Witness ==
    /\ pc = "read_copy" /\ call.op = "report" /\ call.intr
    /\ burst # << >> /\ burst[Len(burst)].res = "dropped"
    /\ Occupancy(head, tail) = SOFTWARE_CAN_BUFFER_SIZE - 1
    /\ Cardinality(UnreadSlots) = SOFTWARE_CAN_BUFFER_SIZE - 1
    /\ software_CAN_buffer_overflow

\* C15 as stated: head is written by the interrupt callback only and tail
\* by the reporter's pop only.
C15_SingleWriter ==
    [][/\ head' # head => isr_pc = "loop"
       /\ tail' # tail => pc = "read_advance" /\ isr_pc = "idle"]_vars

\* The last statement of my_CAN_stop, reached with the controller stopped
\* and the receive notification disabled, so that no callback can run.
StopResetStep ==
    /\ pc = "stop_reset" /\ isr_pc = "idle"
    /\ ~fdcan.running /\ ~fdcan.ie_new
    /\ head' = 0 /\ tail' = 0

\* C15: head is moved on, by one, only by the interrupt callback, which
\* never writes tail; tail is moved on, by one, only by the reporter's pop
\* in the foreground, which never writes head; the one other writer is
\* my_CAN_stop, which sets both to 0 from the foreground after it has
\* stopped the controller and disabled the notification.
C15_WritersAndReset ==
    [][/\ head' # head =>
              \/ /\ isr_pc = "loop"
                 /\ head' = (head + 1) % SOFTWARE_CAN_BUFFER_SIZE
                 /\ tail' = tail
              \/ StopResetStep
       /\ tail' # tail =>
              \/ /\ pc = "read_advance" /\ isr_pc = "idle"
                 /\ tail' = (tail + 1) % SOFTWARE_CAN_BUFFER_SIZE
                 /\ head' = head
              \/ StopResetStep]_vars

\* The callback had moved head and the pop had moved tail when my_CAN_stop
\* set both back to 0.
C15_Witness ==
    /\ call.op = "stop" /\ call.done
    /\ call.before.head # 0 /\ call.before.tail # 0
    /\ call.before.head # call.before.tail
    /\ head = 0 /\ tail = 0

\* C16: the software overflow flag is set only by a callback step that
\* reads a frame while the buffer is full, the hardware overflow flag only
\* at the entry of a callback invocation with the controller's
\* message-lost condition pending; each is cleared only by the report, at
\* its own test; a step that changes one leaves the other; no step of
\* stop, start, manual or auto configuration or set_filter_mask changes
\* either.
C16_FlagLatches ==
    [][/\ software_CAN_buffer_overflow' /\ ~software_CAN_buffer_overflow =>
              /\ isr_pc = "loop"
              /\ (head + 1) % SOFTWARE_CAN_BUFFER_SIZE = tail
              /\ fdcan'.fifo # fdcan.fifo
       /\ ~software_CAN_buffer_overflow' /\ software_CAN_buffer_overflow =>
              call.op = "report" /\ ~call.done /\ pc = "report_sw_clear"
       /\ hardware_CAN_buffer_overflow' /\ ~hardware_CAN_buffer_overflow =>
              isr_pc = "idle" /\ isr_pc' = "loop" /\ fdcan.ir_lost
       /\ ~hardware_CAN_buffer_overflow' /\ hardware_CAN_buffer_overflow =>
              call'.op = "report" /\ ~call'.done /\ pc' = "report_sw_test"
       /\ software_CAN_buffer_overflow' # software_CAN_buffer_overflow =>
              hardware_CAN_buffer_overflow' = hardware_CAN_buffer_overflow
       /\ (call.op \in { "stop", "start", "manual", "auto", "set_filter" }
              /\ call'.op = call.op /\ isr_pc = "idle" /\ isr_pc' = "idle")
          \/ (call'.op \in { "stop", "start", "manual", "auto", "set_filter" }
              /\ call' # call /\ call'.op # call.op) =>
              /\ software_CAN_buffer_overflow' = software_CAN_buffer_overflow
              /\ hardware_CAN_buffer_overflow' = hardware_CAN_buffer_overflow]_vars

\* The software overflow flag, latched while capture ran, is still set
\* after a stop and the start that followed.
C16_Witness ==
    /\ call.op = "start" /\ call.done /\ call.val = TRUE
    /\ call.before.sw_ovf
    /\ software_CAN_buffer_overflow
    /\ head = 0 /\ tail = 0

NoticesOf(kind) == { i \in 1..Len(uart) : uart[i].kind = kind }

\* C17: what one report cycle has printed holds at most one hardware and at
\* most one software overflow notice, and every notice stands before every
\* frame line, however the interrupt interleaves; a notice is printed only
\* by a step that finds its flag set and leaves it clear.
C17_NoticesOncePerCycle ==
    /\ [](call.op = "report" =>
             /\ Cardinality(NoticesOf("hw_overflow")) <= 1
             /\ Cardinality(NoticesOf("sw_overflow")) <= 1
             /\ \A i \in NoticesOf("frame") :
                    \A j \in 1..Len(uart) : i < j => uart[j].kind = "frame")
    /\ [][uart' # uart /\ uart' # << >> =>
             /\ uart'[Len(uart')].kind = "sw_overflow" =>
                    software_CAN_buffer_overflow /\ ~software_CAN_buffer_overflow'
             /\ uart'[Len(uart')].kind = "hw_overflow" =>
                    hardware_CAN_buffer_overflow /\ ~hardware_CAN_buffer_overflow']_vars

\* A cycle printed the software notice and then three frame lines; the
\* flag was latched again during the cycle and is left for the next one.
C17_Witness ==
    /\ call.op = "report" /\ call.done /\ call.intr
    /\ Len(uart) = 4
    /\ uart[1].kind = "sw_overflow"
    /\ uart[2].kind = "frame"
    /\ software_CAN_buffer_overflow

\* C18: a callback invocation has read at most IsrReadMax frames; each of
\* its steps either reads the oldest frame of the Rx FIFO, while fewer than
\* IsrReadMax were read and the FIFO is not empty, or ends the invocation
\* and leaves the FIFO, with the frames beyond the bound in their order,
\* as it is; every invocation ends.
C18_BoundedDrain ==
    /\ [](isr_i <= IsrReadMax)
    /\ [][isr_pc = "loop" /\ (isr_i' # isr_i \/ isr_pc' # isr_pc) =>
             IF isr_i < IsrReadMax /\ fdcan.fifo # << >>
             THEN /\ fdcan'.fifo = Tail(fdcan.fifo)
                  /\ burst'[Len(burst')].frame.Identifier = Head(fdcan.fifo).Identifier
                  /\ isr_i' = isr_i + 1
                  /\ isr_pc' = "loop"
             ELSE /\ fdcan'.fifo = fdcan.fifo
                  /\ isr_pc' = "idle"]_vars
    /\ (isr_pc = "loop") ~> (isr_pc = "idle")

\* The invocation has read IsrReadMax frames and a frame is still queued.
C18_Witness ==
    /\ isr_pc = "loop"
    /\ isr_i = IsrReadMax
    /\ Len(fdcan.fifo) >= 1
    /\ Len(burst) >= IsrReadMax

\* C19: when the Rx FIFO has lost a message while capture is active, the
\* callback invocation that starts next sets the hardware-overflow flag and
\* acknowledges the lost-message condition, so that the next report prints
\* the hardware-overflow notice.
C19_HardwareLossLatched ==
    [][isr_pc = "idle" /\ isr_pc' = "loop" /\ fdcan.ir_lost =>
          hardware_CAN_buffer_overflow' /\ ~fdcan'.ir_lost]_vars

\* From the return of my_CAN_stop() to the return of the next successful
\* my_CAN_start(): the foreground is in the menu loop of settings_menu(),
\* or inside a function that the menu loop called.
Stopped == pc = "menu" \/ (pc # "main" /\ call.from = "menu")

\* C20: from the return of my_CAN_stop() until the next successful
\* my_CAN_start() returns, no callback invocation runs, the new-message
\* notification is disabled and head = tail = 0, also when the callback was
\* invoked during my_CAN_stop(); no callback invocation starts in that span.
C20_StopCancels ==
    /\ [](Stopped => /\ isr_pc = "idle"
                     /\ ~fdcan.ie_new
                     /\ head = 0 /\ tail = 0)
    /\ [][Stopped /\ Stopped' => isr_pc' = "idle" /\ head' = 0 /\ tail' = 0]_vars
    /\ [][call.op = "stop" /\ ~call.done /\ call'.done =>
             Stopped' /\ head' = 0 /\ tail' = 0 /\ ~fdcan'.ie_new]_vars

\* my_CAN_stop() has returned to the menu after the callback was invoked
\* during it, while frames were unread in the ring buffer when it began.
C20_Witness ==
    /\ pc = "menu"
    /\ call.op = "stop" /\ call.done /\ call.intr
    /\ call.before.unread # << >>
    /\ head = 0 /\ tail = 0

\* C21: every frame the callback stores in the ring buffer has a
\* DataLength in 0..8, and the callback copies at most 8 bytes into the
\* frame's Data array, whatever data length the received message reports.
C21_FrameLengthBounded ==
    /\ [](\A i \in UnreadSlots : CAN_ring_buffer[i].DataLength \in 0..8)
    /\ [][isr_pc = "loop" /\ fdcan'.fifo # fdcan.fifo /\ arrivals' = arrivals =>
             MemcpyCount(Head(fdcan.fifo)) <= 8]_vars

\* C22: a call of send_frame_over_UART that finds the ring buffer empty
\* returns at its first test without printing a frame, and no call, also
\* one that the callback interrupts between pops, prints more frame lines
\* than the ring buffer held when the call began.
C22_ReportBoundedByOccupancy ==
    call.op = "report" =>
        Cardinality(NoticesOf("frame")) <= Len(call.before.unread)

\* C23: in every state head and tail are in 0..SOFTWARE_CAN_BUFFER_SIZE-1,
\* the number of frames stored and not yet popped since the last reset is
\* (head - tail) mod SOFTWARE_CAN_BUFFER_SIZE and at most
\* SOFTWARE_CAN_BUFFER_SIZE - 1, and head = tail exactly when no frame is
\* unread; an index that changes goes one up, from the last index to 0, or
\* is reset to 0.
C23_IndexInvariant ==
    /\ [](/\ head \in 0..(SOFTWARE_CAN_BUFFER_SIZE - 1)
          /\ tail \in 0..(SOFTWARE_CAN_BUFFER_SIZE - 1)
          /\ Len(enq_log) - Len(pop_log) = (head - tail) % SOFTWARE_CAN_BUFFER_SIZE
          /\ Len(enq_log) - Len(pop_log) <= SOFTWARE_CAN_BUFFER_SIZE - 1
          /\ (head = tail <=> Len(enq_log) = Len(pop_log)))
    /\ [][/\ head' # head =>
                \/ head' = (IF head = SOFTWARE_CAN_BUFFER_SIZE - 1 THEN 0 ELSE head + 1)
                \/ StopResetStep
          /\ tail' # tail =>
                \/ tail' = (IF tail = SOFTWARE_CAN_BUFFER_SIZE - 1 THEN 0 ELSE tail + 1)
                \/ StopResetStep]_vars

\* The buffer is full across the wrap-around: head has gone from the last
\* index to 0 and stands before tail.
C23_Witness ==
    /\ head < tail
    /\ Len(enq_log) - Len(pop_log) = SOFTWARE_CAN_BUFFER_SIZE - 1
    /\ Len(enq_log) > SOFTWARE_CAN_BUFFER_SIZE

\* The timing t is that of a table entry for the bit-rate rate.
TimingOfRate(t, rate) ==
    \E i \in 1..baudrates_nbr :
        /\ can_timings[i].baudrate = rate
        /\ t.NominalPrescaler = can_timings[i].prescaler
        /\ t.NominalTimeSeg1 = can_timings[i].timeSeg1
        /\ t.NominalTimeSeg2 = can_timings[i].timeSeg2

\* C24: a status that is not configured has bit-rate 0; outside a running
\* auto-configuration a configured status has a table bit-rate and the
\* timing staged in hfdcan1.Init is that of its table entry; my_CAN_start
\* programs the controller with the timing of the reported bit-rate, and
\* the controller keeps it while capture runs.
C24_ConfigConsistent ==
    /\ [](~can_status.is_set => can_status.baudrate = 0)
    /\ [](can_status.is_set /\ (call.op # "auto" \/ call.done) =>
             TimingOfRate(hfdcan1_Init, can_status.baudrate))
    /\ [][pc = "menu" /\ pc' = "start_start" =>
             TimingOfRate(fdcan'.timing, can_status.baudrate)]_vars
    /\ [](fdcan.ie_new /\ fdcan.running =>
             TimingOfRate(fdcan.timing, can_status.baudrate))

\* my_CAN_start has started capture at 500 kbit/s with the timing of the
\* table entry (prescaler 2, segments 34 and 5).
C24_Witness ==
    /\ call.op = "start" /\ call.done /\ call.val = TRUE
    /\ can_status.baudrate = 500000
    /\ fdcan.running
    /\ fdcan.timing = [NominalPrescaler |-> 2, NominalTimeSeg1 |-> 34, NominalTimeSeg2 |-> 5]

\* The positions in hal_calls of the calls of name made in attempt i.
AttemptCalls(name, i) == { k \in CallsOf(name) : hal_calls[k].a = i }

\* C25: in an auto-configuration every attempt starts the controller at
\* most once and stops it at most once, after the start; an attempt that is
\* over, with or without traffic, has one start and one stop; the
\* controller is stopped when the function has returned; the function never
\* activates the notification, and no step taken during it changes head,
\* tail, the overflow flags or the notification enable.
C25_ProbeHygiene ==
    /\ [](call.op = "auto" =>
             /\ \A n \in 1..Len(tried) :
                   /\ Cardinality(AttemptCalls("HAL_FDCAN_Start", tried[n])) <= 1
                   /\ Cardinality(AttemptCalls("HAL_FDCAN_Stop", tried[n])) <= 1
                   /\ \A k \in AttemptCalls("HAL_FDCAN_Stop", tried[n]) :
                         \E j \in AttemptCalls("HAL_FDCAN_Start", tried[n]) : j < k
                   /\ (call.done \/ n < Len(tried)) =>
                         /\ Cardinality(AttemptCalls("HAL_FDCAN_Start", tried[n])) = 1
                         /\ Cardinality(AttemptCalls("HAL_FDCAN_Stop", tried[n])) = 1
             /\ CallsOf("HAL_FDCAN_ActivateNotification") = { }
             /\ ~fdcan.ie_new
             /\ call.done => ~fdcan.running)
    /\ [][call.op = "auto" /\ ~call.done =>
             /\ head' = head /\ tail' = tail
             /\ software_CAN_buffer_overflow' = software_CAN_buffer_overflow
             /\ hardware_CAN_buffer_overflow' = hardware_CAN_buffer_overflow
             /\ fdcan'.ie_new = fdcan.ie_new]_vars

\* An auto-configuration has returned with traffic found in its tenth
\* attempt, after nine attempts without traffic.
C25_Witness ==
    /\ call.op = "auto" /\ call.done
    /\ can_status.is_set
    /\ Len(tried) = 10
    /\ Cardinality(CallsOf("HAL_FDCAN_Start")) = 10
    /\ Cardinality(CallsOf("HAL_FDCAN_Stop")) = 10

\* C26: a frame dropped for a full buffer leaves the software-overflow flag
\* set; the flag is cleared only by the step that prints the
\* software-overflow notice, and it stays set from the reporter's test to
\* that step, so a drop in between is covered by the notice printed after
\* it; with a reporter that keeps running a set flag is eventually
\* reported.
C26_OverflowNeverLost ==
    /\ [][burst' # burst /\ burst' # << >> /\ burst'[Len(burst')].res = "dropped" =>
             software_CAN_buffer_overflow']_vars
    /\ [][software_CAN_buffer_overflow /\ ~software_CAN_buffer_overflow' =>
             uart' = Append(uart, SwNotice)]_vars
    /\ [](pc = "report_sw_clear" => software_CAN_buffer_overflow)
    /\ software_CAN_buffer_overflow ~> ~software_CAN_buffer_overflow

\* The callback has dropped a frame while the reporter stands between its
\* test of the flag and the clear.
C26_Witness ==
    /\ pc = "report_sw_clear"
    /\ isr_pc = "loop" /\ isr_i >= 1
    /\ burst # << >> /\ burst[Len(burst)].res = "dropped"
    /\ software_CAN_buffer_overflow

\* C27: the frames popped since the last reset are, in order, the first of
\* the frames stored since then, and each pop prints the line of the frame
\* it popped; stored frames leave the record only by the reset of
\* my_CAN_stop; with a reporter that keeps running, whenever stored frames
\* are unread, eventually every stored frame has been printed or the reset
\* has discarded the unread ones.
C27_DeliveryLiveness ==
    /\ [](IsPrefix(pop_log, enq_log))
    /\ [][pop_log' # pop_log /\ pop_log' # << >> =>
             /\ pop_log' = Append(pop_log, enq_log[Len(pop_log) + 1])
             /\ uart' = Append(uart, FrameLine(enq_log[Len(pop_log) + 1]))]_vars
    /\ [][~IsPrefix(enq_log, enq_log') => StopResetStep]_vars
    /\ (Len(pop_log) < Len(enq_log)) ~> (Len(pop_log) = Len(enq_log))

\* A report that the callback cut into has returned with all the frames
\* stored so far printed, four or more, while capture goes on.
C27_Witness ==
    /\ call.op = "report" /\ call.done /\ call.intr
    /\ pc = "main" /\ system_state = "STATE_RUN"
    /\ Len(enq_log) >= SOFTWARE_CAN_BUFFER_SIZE
    /\ Len(pop_log) = Len(enq_log)
    /\ Len(uart) >= 2

====
